---------------------------- MODULE Spec2Model ----------------------------
(***************************************************************************)
(* Model of the Twitter ticker-mention scraper (src/index.js).             *)
(*                                                                         *)
(* The program is single-threaded JavaScript: the code between two awaits  *)
(* runs to completion, so every action below is one such segment, taken    *)
(* when the awaited promise settles.  The renderer (puppeteer) and the     *)
(* pages it loads are the environment: each source serves a fixed list of  *)
(* article texts (Feed) and reports its content height from a script       *)
(* chosen in the initial state; an awaited renderer call may reject (see    *)
(* CanReject).                                                             *)
(***************************************************************************)
EXTENDS Integers, Sequences, FiniteSets, TLC

\* ------------------------------------------------------------------ bounds
MaxTimerRuns == 2        \* timer callbacks that are followed
TicksPerInterval == 2    \* clock resolution: ticks per repeat interval
MaxTicks == 4            \* clock horizon, in ticks
MaxScript == 3           \* longest scripted sequence of content heights
MaxCycles == 5           \* the count of scroll cycles is not followed beyond this
MaxTextLen == 5          \* longest generated text block

\* --------------------------------------------------------------- constants
interval == 15 * 60 * 1000
MsPerMinute == 1000 * 60

TickMs == interval \div TicksPerInterval
Horizon == MaxTicks * TickMs
Runs == 0 .. MaxTimerRuns

\* ------------------------------------------------------------ text blocks
\* A text is a sequence of one-character strings.
WordChars ==
  { "A","B","C","D","E","F","G","H","I","J","K","L","M","N","O","P","Q","R",
    "S","T","U","V","W","X","Y","Z",
    "a","b","c","d","e","f","g","h","i","j","k","l","m","n","o","p","q","r",
    "s","t","u","v","w","x","y","z",
    "0","1","2","3","4","5","6","7","8","9","_" }

\* Mutant of MatchLen: the pattern is /\$\w{3}/, a fourth word character is
\* never taken.
MatchLenShort(t, i) ==
  IF /\ t[i] = "$"
     /\ i + 3 <= Len(t)
     /\ \A k \in 1 .. 3 : t[i + k] \in WordChars
  THEN 4
  ELSE 0

\* Length of the match of /\$\w{3,4}/ that starts at position i, 0 if none
\* (the quantifier is greedy: four word characters when there are four).
MatchLen(t, i) ==
  IF /\ t[i] = "$"
     /\ i + 3 <= Len(t)
     /\ \A k \in 1 .. 3 : t[i + k] \in WordChars
  THEN IF i + 4 <= Len(t) /\ t[i + 4] \in WordChars THEN 5 ELSE 4
  ELSE 0

\* tweet.match(tickerRegex): the matches left to right, not overlapping.
RECURSIVE Scan(_, _)
Scan(t, i) ==
  IF i > Len(t) THEN << >>
  ELSE IF MatchLen(t, i) > 0
       THEN << SubSeq(t, i, i + MatchLen(t, i) - 1) >> \o Scan(t, i + MatchLen(t, i))
       ELSE Scan(t, i + 1)

Matches(t) == Scan(t, 1)

\* ------------------------------------------------------------- JS objects
\* A JavaScript object with string keys: its entries <<key, value>> in
\* insertion order, which is the order Object.keys and forEach follow.
Keys(o) == [k \in 1 .. Len(o) |-> o[k][1]]

Has(o, key) == \E k \in 1 .. Len(o) : o[k][1] = key

\* o[key] || 0
Get(o, key) ==
  IF Has(o, key) THEN o[CHOOSE k \in 1 .. Len(o) : o[k][1] = key][2] ELSE 0

\* o[key] = v
Put(o, key, v) ==
  IF Has(o, key)
  THEN [k \in 1 .. Len(o) |-> IF o[k][1] = key THEN << key, v >> ELSE o[k]]
  ELSE Append(o, << key, v >>)

\* matches.forEach(ticker => tickerCounts[ticker] = (tickerCounts[ticker] || 0) + 1)
RECURSIVE CountMatches(_, _)
CountMatches(o, ms) ==
  IF ms = << >> THEN o
  ELSE CountMatches(Put(o, Head(ms), Get(o, Head(ms)) + 1), Tail(ms))

\* tweets.forEach(tweet => ...) starting from the object o
RECURSIVE CountTweets(_, _)
CountTweets(o, tweets) ==
  IF tweets = << >> THEN o
  ELSE CountTweets(CountMatches(o, Matches(Head(tweets))), Tail(tweets))

\* The per-source tickerCounts of a harvest.
ExtractTickers(tweets) == CountTweets(<< >>, tweets)

\* Mutant of MergeEntry: the count already tallied is overwritten, not added to.
MergeEntryOverwrite(all, results, ticker) ==
  Put(all, ticker, Get(results, ticker))

\* allTickerCounts[ticker] = (allTickerCounts[ticker] || 0) + results[ticker]
MergeEntry(all, results, ticker) ==
  Put(all, ticker, Get(all, ticker) + Get(results, ticker))

\* Object.keys(results).forEach(...) over the keys from position k on
RECURSIVE MergeFrom(_, _, _)
MergeFrom(all, results, k) ==
  IF k > Len(results) THEN all
  ELSE MergeFrom(MergeEntry(all, results, Keys(results)[k]), results, k + 1)

Merge(all, results) == MergeFrom(all, results, 1)

\* Math.round(ms / 1000 / 60) for ms >= 0 (halves round up)
RoundMinutes(ms) == (ms + MsPerMinute \div 2) \div MsPerMinute

\* Mutant of ReportLines: the forEach starts at the second key.
ReportLinesSkipFirst(all, minutes) ==
  [k \in 1 .. Len(all) - 1 |->
     [ticker |-> all[k + 1][1], count |-> all[k + 1][2], minutes |-> minutes]]

\* One report line per key of allTickerCounts, in key order.
ReportLines(all, minutes) ==
  [k \in 1 .. Len(all) |->
     [ticker |-> all[k][1], count |-> all[k][2], minutes |-> minutes]]


\* ------------------------------------------------------------ environment
\* Ticker texts used by the simulated pages.
AAPL == << "$","A","A","P","L" >>
TSLA == << "$","T","S","L","A" >>
GME == << "$","G","M","E" >>
AMC == << "$","A","M","C" >>
Sp == << " " >>
Up == << " ","u","p",","," " >>

Sources == { "s1", "s2", "s3", "g1", "g2", "e1" }

\* The article texts each simulated source serves ($('article') texts); e1
\* is a page on which no article ever appears.
Feed ==
  [ s \in Sources |->
      CASE s = "s1" -> << AAPL \o Up \o AAPL >>
        [] s = "s2" -> << TSLA \o Sp \o AAPL, TSLA \o Up \o TSLA >>
        [] s = "s3" -> << << "n","o"," ","$","A","B"," ","$" >> >>
        [] s = "g1" -> << GME \o Sp \o GME \o Up \o GME, GME \o GME >>
        [] s = "g2" -> << AMC \o Up \o GME, << "$","a","m"," " >> \o AMC >>
        [] s = "e1" -> << >> ]

Heights == { 500, 1200, 1500 }

RECURSIVE SeqsUpTo(_, _)
SeqsUpTo(S, n) ==
  IF n = 0 THEN { << >> }
  ELSE LET shorter == SeqsUpTo(S, n - 1)
       IN  shorter \cup { Append(q, x) : q \in { p \in shorter : Len(p) = n - 1 }, x \in S }

HeightScripts == SeqsUpTo(Heights, MaxScript) \ { << >> }

\* Orderings of a set of sources.
Orderings(S) ==
  { q \in [1 .. Cardinality(S) -> S] : \A a, b \in DOMAIN q : a # b => q[a] # q[b] }

\* ------------------------------------------------------------------ state
VARIABLES
  accounts,    \* main: the configured source list
  feed,        \* environment: the article texts each source's page holds
  loops,       \* environment: the page repeats its heights for ever, never settling
  heights,     \* environment: the heights a page reports, measurement by measurement
  now,         \* wall clock, ms
  alive,       \* the node process is running
  mainPc,      \* main: "start", "initial" (awaiting the first run), "armed", "rejected"
  startTime,   \* main: const startTime
  timerDue,    \* setInterval: next due time, -1 when no timer is armed
  fired,       \* number of timer callbacks run so far
  run          \* per invocation of scrapeAndPrint: its locals and those of scrapeTwitter

vars == << accounts, feed, loops, heights, now, alive, mainPc, startTime, timerDue, fired, run >>

\* The k-th measurement of document.body.scrollHeight after navigation; a page
\* whose script is used up keeps its last height, unless it loops.
HeightAt(k) ==
  heights[IF k <= Len(heights) THEN k
          ELSE IF loops THEN ((k - 1) % Len(heights)) + 1
          ELSE Len(heights)]

\* The number of the next measurement; on a looping page it is kept within
\* two rounds of the script (HeightAt is the same one round earlier).
NextMeasured(m) ==
  IF loops /\ m + 1 > 2 * Len(heights) THEN m + 1 - Len(heights) ELSE m + 1

NextCycles(c) == IF c < MaxCycles THEN c + 1 ELSE c

IdleRun ==
  [ pc |-> "idle", idx |-> 0, all |-> << >>, session |-> "none",
    opened |-> 0, closeCalls |-> 0, previousHeight |-> 0, measured |-> 0,
    cycles |-> 0, tickerCounts |-> << >>, returned |-> << >>, reports |-> << >>,
    visited |-> << >>, failedAt |-> 0, failedIn |-> "", began |-> -1, currentTime |-> -1, elapsedMinutes |-> -1 ]

\* scrapeAndPrint, lines 101-113: the report, once the loop is over.
Finish(rec, t, start) ==
  [ rec EXCEPT !.pc = "done",
               !.currentTime = t,
               !.elapsedMinutes = RoundMinutes(t - start),
               !.reports = ReportLines(rec.all, RoundMinutes(t - start)) ]

\* Mutant of BeginRun: the tally is an accumulator shared by the runs, the new
\* run goes on from the counts of the run started before it.
BeginRunShared(t, start) ==
  LET fresh == [ IdleRun EXCEPT !.began = t, !.all = run[fired].all ]
  IN  IF accounts = << >> THEN Finish(fresh, t, start)
      ELSE [ fresh EXCEPT !.pc = "launch", !.idx = 1 ]

\* scrapeAndPrint up to its first await: a fresh tally, then the first
\* account's harvest is started (puppeteer.launch is pending).
BeginRun(t, start) ==
  LET fresh == [ IdleRun EXCEPT !.began = t ]
  IN  IF accounts = << >> THEN Finish(fresh, t, start)
      ELSE [ fresh EXCEPT !.pc = "launch", !.idx = 1 ]

\* Mutant of AfterHarvest: the report is printed inside the loop, after each
\* source.
AfterHarvestStreaming(rec, t, start) ==
  LET merged == [ rec EXCEPT !.all = Merge(rec.all, rec.tickerCounts),
                             !.returned = Append(rec.returned, rec.tickerCounts) ]
  IN  IF rec.idx < Len(accounts)
      THEN [ Finish(merged, t, start) EXCEPT
               !.pc = "launch", !.idx = rec.idx + 1, !.session = "none",
               !.previousHeight = 0, !.measured = 0, !.cycles = 0,
               !.tickerCounts = << >> ]
      ELSE Finish(merged, t, start)

\* Mutant of AfterHarvest: the loop steps over every other account.
AfterHarvestSkip(rec, t, start) ==
  LET merged == [ rec EXCEPT !.all = Merge(rec.all, rec.tickerCounts),
                             !.returned = Append(rec.returned, rec.tickerCounts) ]
  IN  IF rec.idx + 1 < Len(accounts)
      THEN [ merged EXCEPT !.pc = "launch", !.idx = rec.idx + 2, !.session = "none",
                           !.previousHeight = 0, !.measured = 0, !.cycles = 0,
                           !.tickerCounts = << >> ]
      ELSE Finish(merged, t, start)

\* The loop of scrapeAndPrint when scrapeTwitter has returned results.
AfterHarvest(rec, t, start) ==
  LET merged == [ rec EXCEPT !.all = Merge(rec.all, rec.tickerCounts),
                             !.returned = Append(rec.returned, rec.tickerCounts) ]
  IN  IF rec.idx < Len(accounts)
      THEN [ merged EXCEPT !.pc = "launch", !.idx = rec.idx + 1, !.session = "none",
                           !.previousHeight = 0, !.measured = 0, !.cycles = 0,
                           !.tickerCounts = << >> ]
      ELSE Finish(merged, t, start)

\* The program before main has run.
InitProgram ==
  /\ now = TickMs
  /\ alive = TRUE
  /\ mainPc = "start"
  /\ startTime = -1
  /\ timerDue = -1
  /\ fired = 0
  /\ run = [ r \in Runs |-> IdleRun ]

Init ==
  /\ \/ /\ accounts \in Orderings({ "g1", "g2" })
                          \cup { << >>, << "s3" >>, << "e1" >>, << "g1", "e1" >> }
        /\ heights \in { << 500 >>, << 500, 1200 >> }
     \/ /\ accounts \in Orderings({ "s1", "s2", "s3" })
        /\ heights = << 500 >>
     \/ /\ accounts = << "s2" >>
        /\ heights \in HeightScripts
  /\ feed = Feed
  /\ loops = FALSE
  /\ InitProgram

\* ---------------------------------------------------------------- actions
\* main, lines 116-118: capture startTime and call scrapeAndPrint; when the
\* source list is empty the run is over at once and the timer is armed.
MainStart ==
  /\ alive /\ mainPc = "start"
  /\ startTime' = now
  /\ run' = [ run EXCEPT ![0] = BeginRun(now, now) ]
  /\ IF accounts = << >>
     THEN mainPc' = "armed" /\ timerDue' = now + interval
     ELSE mainPc' = "initial" /\ timerDue' = timerDue
  /\ UNCHANGED << accounts, feed, loops, heights, now, alive, fired >>

\* An awaited renderer call of run r at position `at` resolves.
Step(r, at, rec) ==
  /\ alive /\ run[r].pc = at
  /\ run' = [ run EXCEPT ![r] = rec ]
  /\ UNCHANGED << accounts, feed, loops, heights, now, alive, mainPc, startTime, timerDue, fired >>

\* puppeteer.launch resolves: a renderer session is live.
Launch(r) ==
  Step(r, "launch", [ run[r] EXCEPT !.pc = "newPage", !.session = "open",
                                    !.opened = @ + 1 ])

NewPage(r) == Step(r, "newPage", [ run[r] EXCEPT !.pc = "goto" ])

\* line 30: the page of the current account has been loaded.
Goto(r) ==
  Step(r, "goto", [ run[r] EXCEPT !.pc = "height",
                                  !.visited = Append(@, accounts[run[r].idx]) ])

\* line 36: the first measurement; reachedEnd = false, the loop is entered.
FirstHeight(r) ==
  Step(r, "height", [ run[r] EXCEPT !.pc = "scroll", !.previousHeight = HeightAt(1),
                                    !.measured = 1 ])

AutoScroll(r) == Step(r, "scroll", [ run[r] EXCEPT !.pc = "pause" ])

WaitFor(r) == Step(r, "pause", [ run[r] EXCEPT !.pc = "measure" ])

\* Mutant of Compare: a page that did not grow counts as exhausted.
CompareNotGrown(rec, newHeight) ==
  IF newHeight <= rec.previousHeight
  THEN [ rec EXCEPT !.pc = "selector" ]
  ELSE [ rec EXCEPT !.pc = "scroll", !.previousHeight = newHeight ]

\* Mutant of Compare: the test is inverted, the loop ends when the height changed.
CompareChanged(rec, newHeight) ==
  IF newHeight # rec.previousHeight
  THEN [ rec EXCEPT !.pc = "selector" ]
  ELSE [ rec EXCEPT !.pc = "scroll", !.previousHeight = newHeight ]

\* Mutant of Compare: the recorded height is not updated when the loop goes on.
CompareStale(rec, newHeight) ==
  IF newHeight = rec.previousHeight
  THEN [ rec EXCEPT !.pc = "selector" ]
  ELSE [ rec EXCEPT !.pc = "scroll" ]

\* Mutant of Compare: a maximum number of iterations ends the loop as well.
CompareBounded(rec, newHeight) ==
  IF newHeight = rec.previousHeight \/ rec.cycles >= 3
  THEN [ rec EXCEPT !.pc = "selector" ]
  ELSE [ rec EXCEPT !.pc = "scroll", !.previousHeight = newHeight ]

\* lines 45-53: measure again and compare with the recorded height.
Compare(rec, newHeight) ==
  IF newHeight = rec.previousHeight
  THEN [ rec EXCEPT !.pc = "selector" ]
  ELSE [ rec EXCEPT !.pc = "scroll", !.previousHeight = newHeight ]

Measure(r) ==
  Step(r, "measure",
       Compare([ run[r] EXCEPT !.measured = NextMeasured(@), !.cycles = NextCycles(@) ],
               HeightAt(run[r].measured + 1)))

\* Mutant of WaitForSelector: no readiness gate, the harvest goes on whether
\* or not an article is present.
WaitForSelectorNoGate(r) == Step(r, "selector", [ run[r] EXCEPT !.pc = "content" ])

\* line 56: resolves when an article element is present; with none the call
\* can only time out (Fail).
WaitForSelector(r) ==
  /\ run[r].pc = "selector"
  /\ feed[accounts[run[r].idx]] # << >>
  /\ Step(r, "selector", [ run[r] EXCEPT !.pc = "content" ])

\* lines 58-76: page.content resolves, the tickers are counted and
\* browser.close is called.
Content(r) ==
  Step(r, "content",
       [ run[r] EXCEPT !.pc = "close",
                       !.tickerCounts = ExtractTickers(feed[accounts[run[r].idx]]),
                       !.closeCalls = @ + 1 ])

\* Mutant of Close: the tally is one accumulator shared by all runs, so the
\* results are merged into the tally every other run sees as well.
CloseShared(r) ==
  /\ alive /\ run[r].pc = "close"
  /\ LET rec == AfterHarvest([ run[r] EXCEPT !.session = "closed" ], now, startTime)
     IN  /\ run' = [ q \in Runs |->
                       IF q = r THEN rec
                       ELSE [ run[q] EXCEPT !.all = Merge(@, run[r].tickerCounts) ] ]
         /\ IF r = 0 /\ rec.pc = "done"
            THEN mainPc' = "armed" /\ timerDue' = now + interval
            ELSE UNCHANGED << mainPc, timerDue >>
  /\ UNCHANGED << accounts, feed, loops, heights, now, alive, startTime, fired >>

\* browser.close resolves, scrapeTwitter returns and scrapeAndPrint goes on;
\* when the first run is over, main arms the timer (line 120).
Close(r) ==
  /\ alive /\ run[r].pc = "close"
  /\ LET rec == AfterHarvest([ run[r] EXCEPT !.session = "closed" ], now, startTime)
     IN  /\ run' = [ run EXCEPT ![r] = rec ]
         /\ IF r = 0 /\ rec.pc = "done"
            THEN mainPc' = "armed" /\ timerDue' = now + interval
            ELSE UNCHANGED << mainPc, timerDue >>
  /\ UNCHANGED << accounts, feed, loops, heights, now, alive, startTime, fired >>

\* The positions at which the awaited call can reject (waitFor cannot; a
\* rejecting browser.close is not modelled).
CanReject == { "launch", "newPage", "goto", "height", "scroll", "measure",
               "selector", "content" }

\* Mutant of Rejected: the failure of one source is caught and the loop goes
\* on with the next source.
RejectedIsolated(rec) ==
  IF rec.idx < Len(accounts)
  THEN [ rec EXCEPT !.pc = "launch", !.idx = rec.idx + 1, !.failedAt = rec.idx,
                    !.failedIn = rec.pc, !.session = "none", !.previousHeight = 0, !.measured = 0,
                    !.cycles = 0 ]
  ELSE [ rec EXCEPT !.pc = "done", !.failedAt = rec.idx, !.failedIn = rec.pc ]

\* What a rejected await does to run r: nothing in scrapeTwitter or
\* scrapeAndPrint catches it, so the run is over.
Rejected(rec) ==
  [ rec EXCEPT !.pc = "aborted", !.failedAt = rec.idx, !.failedIn = rec.pc ]

\* The rejection reaches main (first run) or the timer callback unhandled:
\* depending on the node version the process exits or only warns.
Fail(r) ==
  /\ alive /\ run[r].pc \in CanReject
  /\ run' = [ run EXCEPT ![r] = Rejected(run[r]) ]
  /\ mainPc' = IF r = 0 /\ Rejected(run[r]).pc = "aborted" THEN "rejected" ELSE mainPc
  /\ \E exits \in BOOLEAN : alive' = ~exits
  /\ UNCHANGED << accounts, feed, loops, heights, now, startTime, timerDue, fired >>

TimerDue == timerDue >= 0 /\ fired < MaxTimerRuns /\ now >= timerDue

\* lines 120-123: the interval timer fires and its callback calls
\* scrapeAndPrint; setInterval keeps the period whatever the callback does.
TimerFire ==
  /\ alive /\ TimerDue
  /\ fired' = fired + 1
  /\ timerDue' = timerDue + interval
  /\ run' = [ run EXCEPT ![fired + 1] = BeginRun(now, startTime) ]
  /\ UNCHANGED << accounts, feed, loops, heights, now, alive, mainPc, startTime >>

\* Time passes; a due timer callback runs first (the event loop is free
\* whenever the program is waiting).
Tick ==
  /\ alive /\ mainPc # "start" /\ ~TimerDue
  /\ now + TickMs <= TickMs + Horizon
  /\ now' = now + TickMs
  /\ UNCHANGED << accounts, feed, loops, heights, alive, mainPc, startTime, timerDue, fired, run >>

Next ==
  \/ MainStart
  \/ TimerFire
  \/ Tick
  \/ \E r \in Runs :
       \/ Launch(r) \/ NewPage(r) \/ Goto(r) \/ FirstHeight(r) \/ AutoScroll(r)
       \/ WaitFor(r) \/ Measure(r) \/ WaitForSelector(r) \/ Content(r)
       \/ Close(r) \/ Fail(r)

Spec == Init /\ [][Next]_vars

\* ------------------------------------------- pages that may never settle
\* One account whose page follows any height script and then either keeps its
\* last height or repeats the script for ever.  An awaited scroll, pause or
\* measurement that can resolve eventually does (or rejects).
InitScroll ==
  /\ accounts = << "s2" >>
  /\ heights \in HeightScripts
  /\ loops \in BOOLEAN
  /\ feed = Feed
  /\ InitProgram

FairSpec ==
  /\ InitScroll
  /\ [][Next]_vars
  /\ \A r \in Runs :
       WF_vars(AutoScroll(r)) /\ WF_vars(WaitFor(r)) /\ WF_vars(Measure(r))

\* ------------------------------------------------- the extractor on its own
\* One source whose page holds generated article texts; only the first run is
\* followed.
Alphabet == { "$", "A", "a", " " }

Example == AAPL \o Up \o AAPL \o << " ","a","g","a","i","n",","," " >> \o TSLA

GeneratedBlocks ==
  { << t >> : t \in SeqsUpTo(Alphabet, MaxTextLen) }
    \cup { << t, u >> : t, u \in [1 .. 4 -> { "$", "A", "a" }] }
    \cup { << Example >> }

InitExtract ==
  /\ accounts = << "s1" >>
  /\ \E blocks \in GeneratedBlocks :
       feed = [ s \in Sources |-> IF s = "s1" THEN blocks ELSE << >> ]
  /\ loops = FALSE
  /\ heights = << 500 >>
  /\ InitProgram

NextExtract ==
  \/ MainStart
  \/ Launch(0) \/ NewPage(0) \/ Goto(0) \/ FirstHeight(0) \/ AutoScroll(0)
  \/ WaitFor(0) \/ Measure(0) \/ WaitForSelector(0) \/ Content(0)
  \/ Close(0) \/ Fail(0)

SpecExtract == InitExtract /\ [][NextExtract]_vars


\* ----------------------------------------------------------------- claims
\* A run is between its start and its end (completion or abort).
Active(r) == run[r].pc \notin { "idle", "done", "aborted" }

\* The scroll loop of the current harvest of run r is over.
DetectorDone(r) == run[r].pc \in { "selector", "content", "close" }

LiveSessions == Cardinality({ r \in Runs : run[r].session = "open" })

NoFailure == \A r \in Runs : run[r].failedAt = 0

Range(q) == { q[k] : k \in DOMAIN q }

RECURSIVE SumCounts(_, _)
SumCounts(rs, t) ==
  IF rs = << >> THEN 0 ELSE Get(Head(rs), t) + SumCounts(Tail(rs), t)

\* The count of ticker t over a set of sources, in no particular order.
RECURSIVE SourceTotal(_, _)
SourceTotal(S, t) ==
  IF S = {} THEN 0
  ELSE LET s == CHOOSE x \in S : TRUE
       IN  Get(ExtractTickers(Feed[s]), t) + SourceTotal(S \ { s }, t)

TickersOf(r) ==
  Range(Keys(run[r].all))
    \cup UNION { Range(Keys(run[r].returned[j])) : j \in 1 .. Len(run[r].returned) }

StrictlyIncreasing(q) == \A k \in 1 .. Len(q) - 1 : q[k] < q[k + 1]

\* C1 (as claimed): whenever no harvest of a run is in progress, every session
\* the run opened has had its close operation invoked exactly once and none
\* is still open.
C1_SessionClosedOnEveryExit ==
  \A r \in Runs :
    ~Active(r) => run[r].closeCalls = run[r].opened /\ run[r].session # "open"

\* C2 (as claimed): while the process runs, at most one renderer session is
\* live at any instant (stated here for the runs in which no harvest failed,
\* so that a violation does not rest on a leaked session).
C2_AtMostOneLiveSession ==
  (alive /\ NoFailure) => LiveSessions <= 1

\* C3 (as claimed): a scheduled run never starts while a previous run is
\* still harvesting or reporting: at most one run is in progress.
C3_RunsDoNotOverlap ==
  Cardinality({ r \in Runs : Active(r) }) <= 1

\* C4 (as claimed): the elapsed minutes a completed run reports are
\* round((report time - start of that same run) / 60000).
C4_ElapsedSinceOwnStart ==
  \A r \in Runs :
    run[r].pc = "done" =>
      run[r].elapsedMinutes = RoundMinutes(run[r].currentTime - run[r].began)

\* C5: after a run in which every harvest succeeded the tally holds, for every
\* symbol, the sum of the counts returned for the sources, a symbol is a key
\* exactly when that sum is positive, and the sum is the one over the set of
\* sources, whatever their order (s1, s2, s3 in any order give $AAPL 3, $TSLA 3).
C5_TallyIsSumOfSources ==
  \A r \in Runs :
    run[r].pc = "done" =>
      /\ Len(run[r].returned) = Len(accounts)
      /\ \A t \in TickersOf(r) \cup { AAPL, TSLA, GME, AMC } :
           /\ Get(run[r].all, t) = SumCounts(run[r].returned, t)
           /\ Get(run[r].all, t) = SourceTotal(Range(accounts), t)
           /\ Has(run[r].all, t) <=> SumCounts(run[r].returned, t) > 0
      /\ Range(accounts) = { "s1", "s2", "s3" } =>
           /\ Get(run[r].all, AAPL) = 3 /\ Get(run[r].all, TSLA) = 3
           /\ Len(run[r].all) = 2

C5_Witness ==
  /\ accounts = << "s2", "s3", "s1" >>
  /\ run[1].pc = "done"
  /\ run[1].returned = << << << TSLA, 3 >>, << AAPL, 1 >> >>, << >>, << << AAPL, 2 >> >> >>
  /\ Get(run[1].all, AAPL) = 3 /\ Get(run[1].all, TSLA) = 3

\* C6: the detector is done exactly at the end of the first cycle whose
\* measurement equals the height recorded before it: while it loops, every
\* measurement differed from the one before; when it is done, the last two are
\* equal and no earlier two were ([500, 1200, 1200]: 2 cycles; constant: 1).
C6_DoneAtFirstEqualMeasurement ==
  \A r \in Runs :
    /\ run[r].pc \in { "scroll", "pause", "measure" } =>
         /\ run[r].cycles = run[r].measured - 1
         /\ \A k \in 2 .. run[r].measured : HeightAt(k) # HeightAt(k - 1)
    /\ DetectorDone(r) =>
         /\ run[r].cycles = run[r].measured - 1
         /\ run[r].cycles >= 1
         /\ HeightAt(run[r].measured) = HeightAt(run[r].measured - 1)
         /\ \A k \in 2 .. run[r].measured - 1 : HeightAt(k) # HeightAt(k - 1)
         /\ heights = << 500, 1200, 1200 >> => run[r].cycles = 2
         /\ (\A k \in DOMAIN heights : heights[k] = heights[1]) => run[r].cycles = 1

C6_Witness ==
  /\ heights = << 500, 1200, 1200 >>
  /\ run[0].pc = "selector" /\ run[0].cycles = 2 /\ run[0].previousHeight = 1200

\* C7: on a strictly increasing sequence of N heights the detector is not
\* done before N measurement cycles.
C7_NotDoneBeforeN ==
  \A r \in Runs :
    (StrictlyIncreasing(heights) /\ DetectorDone(r)) => run[r].cycles >= Len(heights)

C7_Witness ==
  /\ heights = << 500, 1200, 1500 >>
  /\ run[0].pc = "selector" /\ run[0].cycles = 3

\* C8: a run has report lines only when the harvests of all its sources have
\* returned; nothing is reported between harvests.
C8_ReportAfterAllHarvests ==
  \A r \in Runs :
    run[r].reports # << >> =>
      /\ run[r].pc = "done"
      /\ Len(run[r].returned) = Len(accounts)
      /\ run[r].opened = Len(accounts) /\ run[r].closeCalls = Len(accounts)

C8_Witness ==
  /\ Len(accounts) = 3
  /\ run[0].pc = "done" /\ Len(run[0].reports) = 2
  /\ run[1].pc = "close" /\ run[1].idx = 2 /\ run[1].all # << >> /\ run[1].reports = << >>

\* C9: a completed run has exactly one report line per symbol of its tally and
\* no other, each with the symbol's count over all sources of the run (g1, g2:
\* $GME 6 and $AMC 2); no source or no match: no line.
C9_OneLinePerSymbol ==
  \A r \in Runs :
    run[r].pc = "done" =>
      /\ Len(run[r].reports) = Len(run[r].all)
      /\ \A j, k \in 1 .. Len(run[r].reports) :
           j # k => run[r].reports[j].ticker # run[r].reports[k].ticker
      /\ \A k \in 1 .. Len(run[r].reports) :
           /\ Has(run[r].all, run[r].reports[k].ticker)
           /\ run[r].reports[k].count = SumCounts(run[r].returned, run[r].reports[k].ticker)
           /\ run[r].reports[k].count > 0
      /\ \A t \in TickersOf(r) :
           SumCounts(run[r].returned, t) > 0 =>
             \E k \in 1 .. Len(run[r].reports) : run[r].reports[k].ticker = t
      /\ accounts = << "g1", "g2" >> =>
           { << run[r].reports[k].ticker, run[r].reports[k].count >> :
               k \in 1 .. Len(run[r].reports) } = { << GME, 6 >>, << AMC, 2 >> }
      /\ (accounts = << >> \/ accounts = << "s3" >>) => run[r].reports = << >>

C9_Witness ==
  /\ accounts = << "g1", "g2" >>
  /\ run[0].pc = "done"
  /\ run[0].returned = << << << GME, 5 >> >>, << << AMC, 2 >>, << GME, 1 >> >> >>
  /\ Len(run[0].reports) = 2
  /\ run[0].reports[1].ticker = GME /\ run[0].reports[1].count = 6
  /\ run[0].reports[2].ticker = AMC /\ run[0].reports[2].count = 2

\* C10: once a harvest of a run has failed the run is aborted for good: it
\* harvests no later source, merges nothing more and reports nothing.
C10_FailureAbortsRun ==
  [][ \A r \in Runs :
        run[r].failedAt # 0 =>
          /\ run[r].pc = "aborted"
          /\ run[r].reports = << >>
          /\ run'[r] = run[r]
          /\ run'[r].idx = run[r].failedAt ]_vars

C10_Witness ==
  /\ Len(accounts) = 2 /\ alive
  /\ run[1].failedAt = 1 /\ run[1].pc = "aborted" /\ run[1].all = << >>
  /\ run[2].pc = "done" /\ run[2].reports # << >>


\* C11 (as claimed): after a run that has completed, a further run eventually
\* starts.  A further run can only start while the process is running with its
\* timer armed, so after a completed run and until a later run has started:
\* the process is alive and the timer is armed.
C11_TimerSurvivesCompletedRun ==
  \A r \in Runs :
    (run[r].pc = "done" /\ fired = r) => (alive /\ timerDue >= 0)


\* C12: the tally of a run is empty when the run starts and until its first
\* harvest has returned, and at every moment it holds, and the run reports,
\* only what was returned to this run: nothing merged by an earlier run,
\* completed or aborted, is in it.
C12_TallyStartsEmpty ==
  \A r \in Runs :
    /\ run[r].returned = << >> => run[r].all = << >>
    /\ \A t \in TickersOf(r) : Get(run[r].all, t) = SumCounts(run[r].returned, t)
    /\ \A k \in 1 .. Len(run[r].reports) :
         /\ run[r].reports[k].count > 0
         /\ run[r].reports[k].count = SumCounts(run[r].returned, run[r].reports[k].ticker)

C12_Witness ==
  /\ run[0].pc = "done" /\ run[0].all # << >>
  /\ run[1].pc = "aborted" /\ run[1].all # << >>
  /\ run[2].pc = "launch" /\ run[2].idx = 1 /\ run[2].all = << >>


\* C13: within a run the sources are visited in configuration order, one at a
\* time: the pages visited are an initial part of the account list, at most
\* one harvest is under way beyond those that have returned, a harvest is
\* started only when every session the run opened before has been closed and
\* its results returned, and a completed run has harvested each account once.
C13_SequentialInOrder ==
  \A r \in Runs :
    run[r].pc # "idle" =>
      /\ Len(run[r].visited) <= Len(accounts)
      /\ run[r].visited = SubSeq(accounts, 1, Len(run[r].visited))
      /\ Len(run[r].returned) <= Len(run[r].visited)
      /\ Len(run[r].visited) <= Len(run[r].returned) + 1
      /\ Len(run[r].visited) <= run[r].opened
      /\ run[r].opened <= Len(run[r].returned) + 1
      /\ \A k \in 1 .. Len(run[r].returned) :
           run[r].returned[k] = ExtractTickers(feed[accounts[k]])
      /\ run[r].pc = "launch" =>
           /\ run[r].session # "open"
           /\ run[r].opened = run[r].idx - 1 /\ run[r].closeCalls = run[r].idx - 1
           /\ Len(run[r].returned) = run[r].idx - 1
           /\ Len(run[r].visited) = run[r].idx - 1
      /\ run[r].pc = "done" =>
           /\ run[r].visited = accounts
           /\ Len(run[r].returned) = Len(accounts)
           /\ run[r].opened = Len(accounts) /\ run[r].closeCalls = Len(accounts)

C13_Witness ==
  /\ accounts = << "s3", "s1", "s2" >>
  /\ run[1].pc = "launch" /\ run[1].idx = 3
  /\ run[1].visited = << "s3", "s1" >> /\ run[1].opened = 2
  /\ run[0].pc = "done" /\ run[0].visited = accounts


\* C14: the readiness gate is entered when the scroll loop ends (the new
\* measurement equals the recorded height) and the markup is captured only
\* from the gate, with an article present; on a page without article the
\* wait can only end as a failure of the harvest, which then returns nothing:
\* no mapping, not even an empty one, is added to what the run was returned.
C14_ReadinessGate ==
  [][ \A r \in Runs :
        /\ (run'[r].pc = "selector" /\ run[r].pc # "selector") =>
             /\ run[r].pc = "measure"
             /\ HeightAt(run'[r].measured) = run[r].previousHeight
        /\ (run'[r].pc = "content" /\ run[r].pc # "content") =>
             /\ run[r].pc = "selector"
             /\ feed[accounts[run[r].idx]] # << >>
        /\ (run[r].pc = "selector" /\ run'[r] # run[r]
              /\ feed[accounts[run[r].idx]] = << >>) =>
             /\ run'[r].pc = "aborted"
             /\ run'[r].failedAt = run[r].idx /\ run'[r].failedIn = "selector"
             /\ run'[r].returned = run[r].returned
             /\ run'[r].all = run[r].all
             /\ run'[r].reports = << >>
        /\ Len(run'[r].returned) > Len(run[r].returned) =>
             feed[accounts[run[r].idx]] # << >> ]_vars

C14_Witness ==
  /\ accounts = << "g1", "e1" >>
  /\ run[0].pc = "aborted" /\ run[0].failedIn = "selector" /\ run[0].failedAt = 2
  /\ run[0].cycles >= 1
  /\ run[0].returned = << << << GME, 5 >> >> >>
  /\ run[0].reports = << >>


\* The pattern, read off the text: how many word characters, four at most,
\* follow position i; a match starts at every sigil followed by three.
WordRun(t, i) ==
  CHOOSE n \in 0 .. 4 :
    /\ \A k \in 1 .. n : i + k <= Len(t) /\ t[i + k] \in WordChars
    /\ n = 4 \/ i + n + 1 > Len(t) \/ t[i + n + 1] \notin WordChars

MatchStarts(t) == { i \in 1 .. Len(t) : t[i] = "$" /\ WordRun(t, i) >= 3 }

SymbolAt(t, i) == SubSeq(t, i, i + WordRun(t, i))

AllStarts(blocks) ==
  UNION { { << b, i >> : i \in MatchStarts(blocks[b]) } : b \in 1 .. Len(blocks) }

Occurrences(blocks, sym) ==
  Cardinality({ p \in AllStarts(blocks) : SymbolAt(blocks[p[1]], p[2]) = sym })

RECURSIVE SumValues(_)
SumValues(o) == IF o = << >> THEN 0 ELSE Head(o)[2] + SumValues(Tail(o))

\* C15: the mapping extracted from the text blocks of a page has one key per
\* literal symbol matched (case kept), each with the number of matches equal
\* to it, which is positive; the counts add up to the number of matches; no
\* match gives the empty mapping; "$AAPL up, $AAPL again, $TSLA" gives
\* {$AAPL: 2, $TSLA: 1}.
C15_ExtractorCounts ==
  \A r \in Runs :
    run[r].pc = "close" =>
      LET blocks == feed[accounts[run[r].idx]]
          counts == run[r].tickerCounts
      IN  /\ \A j, k \in 1 .. Len(counts) : j # k => counts[j][1] # counts[k][1]
          /\ \A k \in 1 .. Len(counts) :
               /\ counts[k][2] > 0
               /\ counts[k][2] = Occurrences(blocks, counts[k][1])
          /\ \A p \in AllStarts(blocks) : Has(counts, SymbolAt(blocks[p[1]], p[2]))
          /\ SumValues(counts) = Cardinality(AllStarts(blocks))
          /\ AllStarts(blocks) = {} => counts = << >>
          /\ blocks = << Example >> => counts = << << AAPL, 2 >>, << TSLA, 1 >> >>
          /\ blocks = << << "$","A","A","A" >>, << "$","a","a","a" >> >> =>
               counts = << << << "$","A","A","A" >>, 1 >>, << << "$","a","a","a" >>, 1 >> >>

C15_Witness ==
  /\ feed["s1"] = << Example >>
  /\ run[0].pc = "close"
  /\ run[0].tickerCounts = << << AAPL, 2 >>, << TSLA, 1 >> >>


\* Every measurement of the page differs from the one before, for ever.
NeverSettles ==
  /\ loops /\ Len(heights) >= 2
  /\ \A k \in 1 .. Len(heights) : heights[k] # heights[(k % Len(heights)) + 1]

\* C16: the scroll loop has no iteration bound.  On a page whose height
\* differs at every measurement for ever no run ever leaves the loop of its
\* first harvest: nothing is returned, no run completes or reports.  On any
\* other page a loop that has been entered ends (unless a renderer call
\* rejects or the process exits).
C16_UnboundedLoop ==
  /\ [](NeverSettles =>
          \A r \in Runs :
            /\ run[r].pc \notin { "selector", "content", "close", "done" }
            /\ run[r].returned = << >> /\ run[r].reports = << >>)
  /\ \A r \in Runs :
       (~NeverSettles /\ run[r].pc \in { "scroll", "pause", "measure" })
         ~> (DetectorDone(r) \/ run[r].pc = "aborted" \/ ~alive)

C16_Witness ==
  /\ NeverSettles
  /\ run[0].pc = "measure" /\ run[0].cycles = MaxCycles
  /\ run[0].returned = << >>


\* C17: a measurement ends the loop exactly when it equals the recorded
\* height; any other measurement, smaller ones included, sends the loop back
\* to scrolling; either way the recorded height is then the measurement just
\* made, so it always is the most recent measurement.
C17_ExactEqualityEndsLoop ==
  /\ [](\A r \in Runs :
          run[r].measured >= 1 => run[r].previousHeight = HeightAt(run[r].measured))
  /\ [][ \A r \in Runs :
           (run[r].pc = "measure" /\ run'[r].pc \notin { "measure", "aborted" }) =>
             /\ run'[r].pc \in { "selector", "scroll" }
             /\ run'[r].pc = "selector"
                  <=> HeightAt(run'[r].measured) = run[r].previousHeight
             /\ run'[r].previousHeight = HeightAt(run'[r].measured) ]_vars

C17_Witness ==
  /\ heights = << 1200, 500, 500 >>
  /\ run[0].pc = "scroll" /\ run[0].cycles = 1
  /\ run[0].measured = 2 /\ run[0].previousHeight = 500


\* C18: the tally belongs to one run.  It changes only when a harvest of that
\* run returns, by exactly the counts returned, and no other run's tally
\* changes in that step, also while runs overlap; what a completed run reports
\* is the sum of what was returned to it.
C18_TallyOwnedByRun ==
  /\ [](\A r \in Runs :
          run[r].pc = "done" =>
            \A k \in 1 .. Len(run[r].reports) :
              run[r].reports[k].count
                = SumCounts(run[r].returned, run[r].reports[k].ticker))
  /\ [][ \A r \in Runs :
           run'[r].all # run[r].all =>
             /\ run[r].pc = "close"
             /\ run'[r].returned = Append(run[r].returned, run[r].tickerCounts)
             /\ \A t \in Range(Keys(run'[r].all)) \cup Range(Keys(run[r].all)) :
                  Get(run'[r].all, t) = Get(run[r].all, t) + Get(run[r].tickerCounts, t)
             /\ \A q \in Runs \ { r } : run'[q].all = run[q].all ]_vars

C18_Witness ==
  /\ Len(accounts) = 3
  /\ run[2].pc = "done" /\ Len(run[2].reports) = 2
  /\ run[1].pc = "close" /\ run[1].idx = 2
  /\ run[1].all # << >> /\ run[1].all # run[2].all


\* C19 (as claimed): the timer is armed only once the first run has completed;
\* when a harvest of the first run fails it is never armed and no further run
\* starts; a failure in a timer-triggered run ends that run only: the process
\* keeps running with the timer armed.
C19_TimerArming ==
  /\ timerDue >= 0 => run[0].pc = "done"
  /\ run[0].failedAt # 0 => (timerDue = -1 /\ fired = 0)
  /\ \A r \in Runs \ { 0 } : run[r].failedAt # 0 => (alive /\ timerDue >= 0)

=============================================================================
